---- MODULE Spec2Model ----
\* Verification model of src/hydrology.py: the SCS-CN runoff function, the D8
\* flow-direction solver, its tile-parallel driver and the multi-file runoff
\* accumulation pipeline.
\*
\* Grids are records [rows, cols, at] with 0-based cell indices, as in numpy:
\* at[<<r, c>>] is the cell in row r and column c.
EXTENDS Integers, Sequences, FiniteSets, TLC

VARIABLES
    pc,             \* position of the operation under analysis
    mask,           \* land/sea mask handed to the operation
    window_data,    \* calculate_flow_direction: elevation window
    flow_dir,       \* calculate_flow_direction: returned grid ([ok, rows, cols, at])
    dem,            \* calculate_flow_direction_parallel: the raster at tiff_path
    block,          \* its native block shape <<height, width>>
    windows,        \* the block windows, in row-major order
    results,        \* pool.map: per window, [done, res] of its process_window task
    output,         \* the raster at output_path ([ok, rows, cols, at]; ok = it exists)
    committed,      \* sequence of the window indices written to the output so far
    precipitation,  \* compute_runoff: precipitation grid
    cn_map,         \* curve-number grid
    runoff,         \* compute_runoff: returned grid ([ok, rows, cols, at])
    radar_files,    \* calculate_accumulated_runoff: the files of the directory
    idx,            \* number of files the loop has gone through
    accumulated_runoff,     \* the running total ([ok, rows, cols, at]; ok FALSE = None)
    individual_runoffs,     \* the per-file runoff grids kept for the report
    temps,          \* the temporary files that exist
    out_written,    \* TRUE once the accumulated raster was written to output_path
    ret             \* the value returned ([ok, rows, cols, at]; ok FALSE = None)

d8vars == <<window_data, flow_dir>>
tiledvars == <<dem, block, windows, results, output, committed>>
runoffvars == <<precipitation, runoff>>
accvars == <<radar_files, idx, accumulated_runoff, individual_runoffs, temps, out_written, ret>>
vars == <<pc, mask, cn_map, d8vars, tiledvars, runoffvars, accvars>>

-----------------------------------------------------------------------------
\* Bounds of the model.

MaxElev == 2        \* elevations are drawn from 0..MaxElev
MaxBumps == 2       \* neighbours of a window that differ from its background
MaxPrecip == 10     \* precipitation values reach up to MaxPrecip
MaxFiles == 3       \* radar files in the directory

-----------------------------------------------------------------------------
\* Values and grids.

NaN == -9999                \* the not-a-number cell value (np.isnan)
Inf == 1000000              \* float("inf"): above every difference of the model

isnan(x) == x = NaN

Max(a, b) == IF a >= b THEN a ELSE b

Cells(rows, cols) == (0 .. rows - 1) \X (0 .. cols - 1)

\* The grid of `rows` x `cols` cells with the cell values `at`.
Grid(rows, cols, at) == [rows |-> rows, cols |-> cols, at |-> at]

\* The cells of a rows x cols grid that all hold v.
Fill(rows, cols, v) == [p \in Cells(rows, cols) |-> v]

\* The cells of a 1 x 2 grid that hold a and b.
Pair(a, b) == [p \in Cells(1, 2) |-> IF p[2] = 0 THEN a ELSE b]

InGrid(g, r, c) == r >= 0 /\ r < g.rows /\ c >= 0 /\ c < g.cols

NoGrid == [ok |-> FALSE, rows |-> 0, cols |-> 0, at |-> <<>>]

-----------------------------------------------------------------------------
\* calculate_flow_direction (D8).

D8_OFFSETS == << <<-1, -1>>, <<-1, 0>>, <<-1, 1>>, <<0, 1>>,
                 <<1, 1>>, <<1, 0>>, <<1, -1>>, <<0, -1>> >>
D8_VALUES == <<128, 1, 2, 4, 8, 16, 32, 64>>

\* A neighbour loop in which a later neighbour with an equal drop replaces the
\* one found first.
Improves_LastWins(diff, min_diff) == diff > 0 /\ diff <= min_diff

\* The test `diff > 0 and diff < min_diff` of the neighbour loop.
Improves(diff, min_diff) == diff > 0 /\ diff < min_diff

\* The loop over D8_OFFSETS for the cell (r, c), from neighbour i on, carrying
\* min_diff and min_dir. The mask is indexed only for a neighbour whose
\* elevation is not NaN (short-circuit `and`); an index outside the mask raises
\* IndexError, reported as err.
RECURSIVE ScanNeighbors(_, _, _, _, _, _, _)
ScanNeighbors(w, m, r, c, i, min_diff, min_dir) ==
    IF i > Len(D8_OFFSETS)
    THEN [err |-> FALSE, dir |-> min_dir]
    ELSE LET nr == r + D8_OFFSETS[i][1]
             nc == c + D8_OFFSETS[i][2]
             neighbor == w.at[<<nr, nc>>]
         IN  IF isnan(neighbor)
             THEN ScanNeighbors(w, m, r, c, i + 1, min_diff, min_dir)
             ELSE IF ~InGrid(m, nr, nc)
             THEN [err |-> TRUE, dir |-> 0]
             ELSE IF m.at[<<nr, nc>>] = 1 /\ Improves(w.at[<<r, c>>] - neighbor, min_diff)
             THEN ScanNeighbors(w, m, r, c, i + 1, w.at[<<r, c>>] - neighbor, D8_VALUES[i])
             ELSE ScanNeighbors(w, m, r, c, i + 1, min_diff, min_dir)

\* The body of the two for loops for one interior cell (r, c).
CellDirection(w, m, r, c) ==
    IF ~InGrid(m, r, c)
    THEN [err |-> TRUE, dir |-> 0]
    ELSE IF m.at[<<r, c>>] = 0
    THEN [err |-> FALSE, dir |-> 0]
    ELSE IF isnan(w.at[<<r, c>>])
    THEN [err |-> FALSE, dir |-> 0]
    ELSE ScanNeighbors(w, m, r, c, 1, Inf, 0)

\* calculate_flow_direction(window_data, mask): the codes of the interior cells,
\* returned as flow_dir[1:-1, 1:-1]; ok is FALSE when the call raises.
calculate_flow_direction(w, m) ==
    LET interior == {p \in Cells(w.rows, w.cols) :
                        /\ p[1] >= 1 /\ p[1] < w.rows - 1
                        /\ p[2] >= 1 /\ p[2] < w.cols - 1}
        cell(p) == CellDirection(w, m, p[1], p[2])
    IN  IF \E p \in interior : cell(p).err
        THEN NoGrid
        ELSE [ok |-> TRUE,
              rows |-> Max(w.rows - 2, 0),
              cols |-> Max(w.cols - 2, 0),
              at |-> [p \in Cells(Max(w.rows - 2, 0), Max(w.cols - 2, 0)) |->
                        cell(<<p[1] + 1, p[2] + 1>>).dir]]

-----------------------------------------------------------------------------
\* Specification of the flow-direction solver on one window.

TiledIdle ==
    /\ dem = NoGrid /\ block = <<0, 0>> /\ windows = <<>> /\ results = <<>>
    /\ output = NoGrid /\ committed = <<>>

RunoffIdle == precipitation = NoGrid /\ runoff = NoGrid

AccIdle ==
    /\ radar_files = <<>> /\ idx = 0 /\ accumulated_runoff = NoGrid
    /\ individual_runoffs = <<>> /\ temps = {} /\ out_written = FALSE /\ ret = NoGrid

Elev == 0 .. MaxElev

\* What a cell of an input window can be: land at an elevation, land with a
\* NaN elevation, or sea (mask 0) lying lower than every land cell.
CellKinds == {[e |-> v, m |-> 1] : v \in Elev \cup {NaN}} \cup {[e |-> 0, m |-> 0]}

Ring == {p \in Cells(3, 3) : p # <<1, 1>>}

InitD8 ==
    /\ pc = "d8_call"
    /\ flow_dir = NoGrid
    /\ TiledIdle /\ RunoffIdle /\ AccIdle /\ cn_map = NoGrid
    /\ \E b \in Elev, center \in CellKinds :
         \E B \in {X \in SUBSET Ring : Cardinality(X) <= MaxBumps} :
           \E f \in [B -> CellKinds] :
             LET kind(p) == IF p = <<1, 1>> THEN center
                            ELSE IF p \in B THEN f[p]
                            ELSE [e |-> b, m |-> 1]
             IN  /\ window_data = Grid(3, 3, [p \in Cells(3, 3) |-> kind(p).e])
                 /\ mask = Grid(3, 3, [p \in Cells(3, 3) |-> kind(p).m])

RunFlowDirection ==
    /\ pc = "d8_call"
    /\ flow_dir' = calculate_flow_direction(window_data, mask)
    /\ pc' = "d8_done"
    /\ UNCHANGED <<window_data, mask, cn_map, tiledvars, runoffvars, accvars>>

NextD8 == RunFlowDirection

SpecD8 == InitD8 /\ [][NextD8]_vars

\* The neighbours in the order and with the codes the claim C8 states:
\* NW, N, NE, E, SE, S, SW, W.
C8_Order == << [dr |-> -1, dc |-> -1, code |-> 128], [dr |-> -1, dc |-> 0, code |-> 1],
               [dr |-> -1, dc |-> 1, code |-> 2],    [dr |-> 0, dc |-> 1, code |-> 4],
               [dr |-> 1, dc |-> 1, code |-> 8],     [dr |-> 1, dc |-> 0, code |-> 16],
               [dr |-> 1, dc |-> -1, code |-> 32],   [dr |-> 0, dc |-> -1, code |-> 64] >>

C8_Elev(i) == window_data.at[<<1 + C8_Order[i].dr, 1 + C8_Order[i].dc>>]
C8_Land(i) == mask.at[<<1 + C8_Order[i].dr, 1 + C8_Order[i].dc>>] = 1
C8_Drop(i) == window_data.at[<<1, 1>>] - C8_Elev(i)
C8_Candidates == {i \in 1 .. 8 : ~isnan(C8_Elev(i)) /\ C8_Land(i) /\ C8_Drop(i) > 0}

\* C8: the interior cell of a window gets the code of the eligible neighbour
\* (elevation not NaN, mask 1) with the smallest strictly positive drop, the
\* first such neighbour in the order NW, N, NE, E, SE, S, SW, W when several
\* share that drop; it gets 0 when no neighbour qualifies, when the cell is sea
\* and when its elevation is NaN.
C8_GentlestFirstNeighbour ==
    pc = "d8_done" =>
        /\ flow_dir.ok /\ flow_dir.rows = 1 /\ flow_dir.cols = 1
        /\ IF mask.at[<<1, 1>>] = 0 \/ isnan(window_data.at[<<1, 1>>]) \/ C8_Candidates = {}
           THEN flow_dir.at[<<0, 0>>] = 0
           ELSE \E i \in C8_Candidates :
                  /\ flow_dir.at[<<0, 0>>] = C8_Order[i].code
                  /\ \A j \in C8_Candidates :
                        /\ C8_Drop(i) <= C8_Drop(j)
                        /\ C8_Drop(j) = C8_Drop(i) => i <= j

\* C8 witness: NW is the steepest descent, N and W share the smallest drop,
\* and the cell got the code of N.
C8_Witness ==
    /\ pc = "d8_done"
    /\ mask.at[<<1, 1>>] = 1 /\ ~isnan(window_data.at[<<1, 1>>])
    /\ {2, 8} \subseteq C8_Candidates /\ 1 \in C8_Candidates
    /\ C8_Drop(2) = C8_Drop(8) /\ C8_Drop(1) > C8_Drop(2)
    /\ \A j \in C8_Candidates : C8_Drop(2) <= C8_Drop(j)
    /\ flow_dir.at[<<0, 0>>] = 1

-----------------------------------------------------------------------------
\* calculate_flow_direction_parallel.

Min(a, b) == IF a <= b THEN a ELSE b

\* src.block_windows(): the blocks of a raster in row-major order, those at
\* the right and bottom edges clipped to the raster.
BlockWindows(g, bh, bw) ==
    LET nbr == (g.rows + bh - 1) \div bh
        nbc == (g.cols + bw - 1) \div bw
    IN  [k \in 1 .. nbr * nbc |->
            LET i == (k - 1) \div nbc
                j == (k - 1) % nbc
            IN  [row_off |-> i * bh, col_off |-> j * bw,
                 height |-> Min(bh, g.rows - i * bh),
                 width |-> Min(bw, g.cols - j * bw)]]

\* src.read(1, window=window): the cells of the window, nothing around them.
ReadWindow(g, win) ==
    [rows |-> win.height, cols |-> win.width,
     at |-> [p \in Cells(win.height, win.width) |->
                g.at[<<win.row_off + p[1], win.col_off + p[2]>>]]]

\* process_window((window, data, mask)): the solver on the window's data and
\* the mask as handed over (the whole mask, indexed by window-local indices).
process_window(data, m) == calculate_flow_direction(data, m)

Pending == [done |-> FALSE, res |-> NoGrid]

AllReturned(res) == \A k \in DOMAIN res : res[k].done

\* A pool in which the failure of a task is not reported by map.
AnyFailed_Swallowed(res) == FALSE

\* pool.map re-raises the exception of a failed task.
AnyFailed(res) == \E k \in DOMAIN res : res[k].done /\ ~res[k].res.ok

\* dst.write(result, 1, window=window) with an array of the window's shape
\* stores it cell by cell; an array of another shape is stretched over the
\* window (nearest neighbour), which needs a non-empty array.
WriteWindow(out, win, arr) ==
    [out EXCEPT !.at =
        [p \in DOMAIN out.at |->
            IF /\ p[1] >= win.row_off /\ p[1] < win.row_off + win.height
               /\ p[2] >= win.col_off /\ p[2] < win.col_off + win.width
            THEN LET i == p[1] - win.row_off
                     j == p[2] - win.col_off
                 IN  arr.at[<<((2 * i + 1) * arr.rows) \div (2 * win.height),
                              ((2 * j + 1) * arr.cols) \div (2 * win.width)>>]
            ELSE out.at[p]]]

SameShape(win, arr) == arr.rows = win.height /\ arr.cols = win.width

\* with rasterio.open(tiff_path): windows and data are read.
ReadBlocks ==
    /\ pc = "tiled_open"
    /\ windows' = BlockWindows(dem, block[1], block[2])
    /\ results' = [k \in DOMAIN windows' |-> Pending]
    /\ pc' = "tiled_map"
    /\ UNCHANGED <<mask, dem, block, output, committed, d8vars, cn_map, runoffvars, accvars>>

\* A pool worker runs the task of window k.
Worker(k) ==
    /\ pc = "tiled_map"
    /\ ~results[k].done
    /\ results' = [results EXCEPT ![k] =
                     [done |-> TRUE,
                      res |-> process_window(ReadWindow(dem, windows[k]), mask)]]
    /\ UNCHANGED <<pc, mask, dem, block, windows, output, committed, d8vars, cn_map, runoffvars, accvars>>

\* pool.map returns the results; the output raster is created.
MapReturns ==
    /\ pc = "tiled_map"
    /\ AllReturned(results) /\ ~AnyFailed(results)
    /\ output' = [ok |-> TRUE, rows |-> dem.rows, cols |-> dem.cols,
                  at |-> Fill(dem.rows, dem.cols, 0)]
    /\ pc' = "tiled_write"
    /\ UNCHANGED <<mask, dem, block, windows, results, committed, d8vars, cn_map, runoffvars, accvars>>

\* pool.map raises the exception of a failed task; the function is left.
MapRaises ==
    /\ pc = "tiled_map"
    /\ AllReturned(results) /\ AnyFailed(results)
    /\ pc' = "tiled_aborted"
    /\ UNCHANGED <<mask, dem, block, windows, results, output, committed, d8vars, cn_map, runoffvars, accvars>>

\* One round of `for window, result in results: dst.write(...)`.
WriteResult ==
    /\ pc = "tiled_write"
    /\ Len(committed) < Len(windows)
    /\ LET k == Len(committed) + 1
       IN  /\ results[k].res.ok
           /\ results[k].res.rows > 0 /\ results[k].res.cols > 0
           /\ output' = WriteWindow(output, windows[k], results[k].res)
           /\ committed' = Append(committed, k)
    /\ UNCHANGED <<pc, mask, dem, block, windows, results, d8vars, cn_map, runoffvars, accvars>>

\* dst.write raises: the array is empty or (as the library may refuse it) has
\* not the shape of the window.
WriteRaises ==
    /\ pc = "tiled_write"
    /\ Len(committed) < Len(windows)
    /\ LET k == Len(committed) + 1
       IN  \/ ~results[k].res.ok
           \/ results[k].res.rows = 0 \/ results[k].res.cols = 0
           \/ ~SameShape(windows[k], results[k].res)
    /\ pc' = "tiled_write_error"
    /\ UNCHANGED <<mask, dem, block, windows, results, output, committed, d8vars, cn_map, runoffvars, accvars>>

\* The loop ends and the output raster is closed.
CloseOutput ==
    /\ pc = "tiled_write"
    /\ Len(committed) = Len(windows)
    /\ pc' = "tiled_done"
    /\ UNCHANGED <<mask, dem, block, windows, results, output, committed, d8vars, cn_map, runoffvars, accvars>>

\* The rasters the tiled operation is started on: a terrain of shape
\* TiledShape, flat but for at most one cell, in blocks of one of
\* BlockShapes, with a mask of the raster's shape or one that is narrower than
\* a block.
TiledShape == <<3, 6>>
BlockShapes == {<<3, 3>>, <<3, 4>>, <<3, 6>>}
NarrowMask == Grid(3, 2, Fill(3, 2, 1))

InitTiled ==
    /\ pc = "tiled_open"
    /\ window_data = NoGrid /\ flow_dir = NoGrid /\ RunoffIdle /\ AccIdle
    /\ cn_map = NoGrid
    /\ windows = <<>> /\ results = <<>> /\ output = NoGrid /\ committed = <<>>
    /\ block \in BlockShapes
    /\ \E b \in Elev, q \in Cells(TiledShape[1], TiledShape[2]), k \in CellKinds :
         LET cells == Cells(TiledShape[1], TiledShape[2])
         IN  /\ dem = Grid(TiledShape[1], TiledShape[2],
                           [p \in cells |-> IF p = q THEN k.e ELSE b])
             /\ mask \in {Grid(TiledShape[1], TiledShape[2],
                               [p \in cells |-> IF p = q THEN k.m ELSE 1]),
                          NarrowMask}

NextTiled ==
    \/ ReadBlocks
    \/ \E k \in DOMAIN results : Worker(k)
    \/ MapReturns
    \/ MapRaises
    \/ WriteResult
    \/ WriteRaises
    \/ CloseOutput

SpecTiled == InitTiled /\ [][NextTiled]_vars

\* The grid with a 1-cell halo of `fill` around it.
Halo(g, fill) ==
    Grid(g.rows + 2, g.cols + 2,
         [p \in Cells(g.rows + 2, g.cols + 2) |->
            IF InGrid(g, p[1] - 1, p[2] - 1) THEN g.at[<<p[1] - 1, p[2] - 1>>] ELSE fill])

\* One run of the solver over the whole raster, haloed by NaN / sea cells.
C2_WholeGridRun == calculate_flow_direction(Halo(dem, NaN), Halo(mask, 0))

\* C2: every tile result has the shape of its window, and the output written
\* by calculate_flow_direction_parallel equals one run of
\* calculate_flow_direction over the whole (haloed) raster, whatever the blocks.
C2_PartitionInvariance ==
    /\ \A k \in DOMAIN results :
         results[k].done /\ results[k].res.ok => SameShape(windows[k], results[k].res)
    /\ pc = "tiled_done" => output.at = C2_WholeGridRun.at

\* C2, the output alone: a finished run left the whole-raster result in the output.
C2_OutputEqualsWholeGridRun ==
    pc = "tiled_done" => output.at = C2_WholeGridRun.at

\* C7: the output is written, window after window in the order of the results,
\* only when every tile worker has returned a result; when a worker failed the
\* output raster is not even created and no tile result is committed.
C7_NoPartialCommit ==
    /\ output.ok \/ committed # <<>> =>
         \A k \in DOMAIN results : results[k].done /\ results[k].res.ok
    /\ (\E k \in DOMAIN results : results[k].done /\ ~results[k].res.ok) =>
         ~output.ok /\ committed = <<>> /\ pc \in {"tiled_map", "tiled_aborted"}
    /\ \A i \in DOMAIN committed : committed[i] = i

\* C7 witness: one worker returned a result, another failed, and the operation
\* was aborted with no output.
C7_Witness ==
    /\ pc = "tiled_aborted"
    /\ \E k \in DOMAIN results : results[k].done /\ results[k].res.ok
    /\ \E k \in DOMAIN results : results[k].done /\ ~results[k].res.ok
    /\ ~output.ok /\ committed = <<>>

-----------------------------------------------------------------------------
\* compute_runoff (SCS-CN).
\*
\* Precipitation and curve numbers are whole numbers. Runoff values, which the
\* code holds as float32, are fixed-point numbers in thousandths (rounded
\* toward zero); the potential retention S is held in halves (S2 = 2 * S).

\* numpy broadcasting of two 2-D shapes: per axis the sizes are equal or one
\* of them is 1; anything else raises ValueError.
Shape(g) == <<g.rows, g.cols>>
Broadcastable(a, b) == \A d \in 1 .. 2 : a[d] = b[d] \/ a[d] = 1 \/ b[d] = 1
Broadcast(a, b) == <<IF a[1] = 1 THEN b[1] ELSE a[1], IF a[2] = 1 THEN b[2] ELSE a[2]>>

\* The cell of g that broadcasting pairs with the cell (r, c) of the result.
BAt(g, r, c) == g.at[<<IF g.rows = 1 THEN 0 ELSE r, IF g.cols = 1 THEN 0 ELSE c>>]

RECURSIVE Pow10(_)
Pow10(k) == IF k = 0 THEN 1 ELSE 10 * Pow10(k - 1)

\* floor(n * 10^k / d) for n >= 0 and d > 0, digit by digit.
RECURSIVE LongDiv(_, _, _)
LongDiv(n, d, k) ==
    IF k = 0 THEN n \div d
    ELSE (n \div d) * Pow10(k) + LongDiv((n % d) * 10, d, k - 1)

\* n / d in thousandths, for n >= 0 and d # 0.
Thousandths(n, d) == IF d > 0 THEN LongDiv(n, d, 3) ELSE 0 - LongDiv(n, 0 - d, 3)

\* The curve number 1e-6 that replaces a curve number <= 0 and that of a sea
\* cell; no curve number of a grid is 0 after the replacement, so 0 names it.
TinyCN == 0

\* np.where((cn_map <= 0) | (mask == 0), 1e-6, cn_map), one cell.
EffectiveCN(cn, m) == IF cn <= 0 \/ m = 0 THEN TinyCN ELSE cn

\* np.where(mask == 0, 0, precipitation), one cell.
EffectivePrecip(p, m) == IF m = 0 THEN 0 ELSE p

\* A retention that is not clamped at 0.
Retention2_NoClamp(cn) == IF cn = TinyCN THEN 2000000000 - 20 ELSE (2000 \div cn) - 20

\* S = np.maximum((1000 / cn_map) - 10, 0), one cell, in halves. The curve
\* numbers of the model divide 2000, so the division is exact.
Retention2(cn) == Max(IF cn = TinyCN THEN 2000000000 - 20 ELSE (2000 \div cn) - 20, 0)

\* valid_mask = (precipitation > 0.2 * S) & (mask == 1), one cell.
ValidCell(p, s2, m) == ~isnan(p) /\ 10 * p > s2 /\ m = 1

\* ((p - 0.2 * S) ** 2) / (p + 0.8 * S + 1e-6), one cell: the numerator in
\* hundredths, the denominator in millionths, the quotient in thousandths.
ExcessRunoff(p, s2) ==
    Thousandths((10 * p - s2) * (10 * p - s2) * 10000, p * 1000000 + 400000 * s2 + 1)

\* compute_runoff(precipitation, cn_map, mask). The shapes follow numpy: the
\* two np.where and the comparison broadcast their operands (ValueError when
\* they cannot), and the boolean index valid_mask must have exactly the shape
\* of runoff, precipitation and S (IndexError otherwise). ok is FALSE when the
\* call raises.
compute_runoff(precip, cn, m) ==
    IF ~Broadcastable(Shape(cn), Shape(m)) \/ ~Broadcastable(Shape(m), Shape(precip))
    THEN NoGrid
    ELSE LET cn_shape == Broadcast(Shape(cn), Shape(m))
             p_shape == Broadcast(Shape(m), Shape(precip))
         IN  IF ~Broadcastable(p_shape, cn_shape)
             THEN NoGrid
             ELSE IF Broadcast(p_shape, cn_shape) # p_shape \/ cn_shape # p_shape
             THEN NoGrid
             ELSE [ok |-> TRUE, rows |-> p_shape[1], cols |-> p_shape[2],
                   at |-> [q \in Cells(p_shape[1], p_shape[2]) |->
                      LET mq == BAt(m, q[1], q[2])
                          p == EffectivePrecip(BAt(precip, q[1], q[2]), mq)
                          s2 == Retention2(EffectiveCN(BAt(cn, q[1], q[2]), mq))
                      IN  (IF ValidCell(p, s2, mq) THEN ExcessRunoff(p, s2) ELSE 0) * mq]]

-----------------------------------------------------------------------------
\* Specification of the runoff model on one triple of grids.

GridsOver(shape, values) ==
    {Grid(shape[1], shape[2], f) : f \in [Cells(shape[1], shape[2]) -> values]}

RunoffShapes == {<<1, 1>>, <<1, 2>>, <<2, 1>>}
PrecipValues == {-1, 0, 1, MaxPrecip \div 2, MaxPrecip}
CurveNumbers == {-5, 0, 50, 80, 100, 125}

InitRunoff ==
    /\ pc = "runoff_call"
    /\ window_data = NoGrid /\ flow_dir = NoGrid /\ TiledIdle /\ AccIdle
    /\ runoff = NoGrid
    /\ \E sp \in RunoffShapes, sc \in RunoffShapes, sm \in RunoffShapes :
         /\ precipitation \in GridsOver(sp, PrecipValues)
         /\ cn_map \in GridsOver(sc, CurveNumbers)
         /\ mask \in GridsOver(sm, {0, 1})

RunComputeRunoff ==
    /\ pc = "runoff_call"
    /\ runoff' = compute_runoff(precipitation, cn_map, mask)
    /\ pc' = "runoff_done"
    /\ UNCHANGED <<precipitation, cn_map, mask, d8vars, tiledvars, accvars>>

NextRunoff == RunComputeRunoff

SpecRunoff == InitRunoff /\ [][NextRunoff]_vars

\* C9: every cell of the compute_runoff output whose mask cell is 0 is exactly
\* 0, and no cell of the output is negative when no precipitation is negative,
\* whatever the curve numbers (zero and negative ones included).
C9_SeaZeroAndNonNegative ==
    pc = "runoff_done" /\ runoff.ok =>
        \A q \in DOMAIN runoff.at :
            /\ BAt(mask, q[1], q[2]) = 0 => runoff.at[q] = 0
            /\ (\A x \in DOMAIN precipitation.at : precipitation.at[x] >= 0) =>
                  runoff.at[q] >= 0

\* C9 witness: grids of one shape with a sea cell under rain, a land cell with
\* a curve number <= 0 and a land cell with positive runoff.
C9_Witness ==
    /\ pc = "runoff_done" /\ runoff.ok
    /\ Shape(precipitation) = Shape(mask) /\ Shape(cn_map) = Shape(mask)
    /\ \A x \in DOMAIN precipitation.at : precipitation.at[x] >= 0
    /\ \E q \in DOMAIN runoff.at :
         mask.at[q] = 0 /\ precipitation.at[q] > 0 /\ runoff.at[q] = 0
    /\ \E q \in DOMAIN runoff.at :
         mask.at[q] = 1 /\ runoff.at[q] > 0

\* C9 witness: a land cell whose curve number is not positive, under rain.
C9_WitnessDegenerateCN ==
    /\ pc = "runoff_done" /\ runoff.ok
    /\ \E q \in DOMAIN runoff.at :
         /\ Shape(cn_map) = Shape(runoff) /\ Shape(precipitation) = Shape(runoff)
         /\ BAt(mask, q[1], q[2]) = 1 /\ cn_map.at[q] <= 0 /\ precipitation.at[q] > 0
         /\ runoff.at[q] = 0

\* C10: compute_runoff returns no grid when the shapes of the precipitation
\* grid, the curve-number grid and the mask are not all identical.
C10_ShapeMismatchFails ==
    pc = "runoff_done" /\ ~(Shape(precipitation) = Shape(cn_map) /\ Shape(cn_map) = Shape(mask))
        => ~runoff.ok
-----------------------------------------------------------------------------
\* process_tiff, process_radar_file and calculate_accumulated_runoff.
\*
\* A radar file is a record: exists (os.path.exists), crop_ok and align_ok
\* (whether the crop and the align collaborator succeed on it), and the raster
\* the align step leaves: has_nodata / nodata (src.nodata) and its band, the
\* grid [rows, cols, at].

Abs(x) == IF x < 0 THEN 0 - x ELSE x

\* np.isclose(p, nodata, atol=1e-1) with the default rtol of 1e-5:
\* |p - nodata| <= atol + rtol * |nodata|, taken times 100000.
IsCloseToNodata(p, nodata) ==
    ~isnan(p) /\ 100000 * Abs(p - nodata) <= 10000 + Abs(nodata)

\* process_tiff up to the runoff call: values close to the declared nodata
\* value become 0, then negative values become 0.
CleansePrecipitation(f) ==
    [rows |-> f.rows, cols |-> f.cols,
     at |-> [q \in DOMAIN f.at |->
        LET p1 == IF f.has_nodata /\ IsCloseToNodata(f.at[q], f.nodata) THEN 0 ELSE f.at[q]
        IN  IF ~isnan(p1) /\ p1 < 0 THEN 0 ELSE p1]]

\* process_tiff(file, cn_map, mask): the runoff of the cleansed precipitation
\* with NaN replaced by 0 (np.nan_to_num) and negative values forced to 0; an
\* exception of compute_runoff propagates (ok FALSE).
process_tiff(f, cn, m) ==
    LET r == compute_runoff(CleansePrecipitation(f), cn, m)
    IN  IF ~r.ok THEN NoGrid
        ELSE [r EXCEPT !.at = [q \in DOMAIN r.at |->
                 LET v == IF isnan(r.at[q]) THEN 0 ELSE r.at[q]
                 IN  IF v < 0 THEN 0 ELSE v]]

\* process_radar_file(file, cn_map, mask, dem_tiff) for the i-th file: the
\* runoff it returns (ok FALSE = None) and the temporary files it leaves. Both
\* NamedTemporaryFile(delete=False) files exist once created; os.remove is
\* reached only when all three steps succeeded.
process_radar_file(i, f, cn, m) ==
    IF ~f.crop_ok
    THEN [runoff |-> NoGrid, left |-> {<<i, "cropped">>}]
    ELSE IF ~f.align_ok
    THEN [runoff |-> NoGrid, left |-> {<<i, "cropped">>, <<i, "aligned">>}]
    ELSE IF ~process_tiff(f, cn, m).ok
    THEN [runoff |-> NoGrid, left |-> {<<i, "cropped">>, <<i, "aligned">>}]
    ELSE [runoff |-> process_tiff(f, cn, m), left |-> {}]

\* A first total that is the first runoff grid itself.
FirstTotal_Alias(r) == r

\* np.zeros_like(runoff): the running total before the first grid is added.
FirstTotal(r) == [r EXCEPT !.at = [q \in DOMAIN r.at |-> 0]]

\* accumulated_runoff += runoff, for grids of one shape.
AddGrid(total, r) == [total EXCEPT !.at = [q \in DOMAIN total.at |-> total.at[q] + r.at[q]]]

\* A running total that starts as a grid of zeros instead of None.
InitialTotal_Zeros == [ok |-> TRUE, rows |-> 0, cols |-> 0, at |-> <<>>]

\* accumulated_runoff = None
InitialTotal == NoGrid

\* `if not os.path.exists(file): continue`
SkipMissing ==
    /\ pc = "acc_loop" /\ idx < Len(radar_files)
    /\ ~radar_files[idx + 1].exists
    /\ idx' = idx + 1
    /\ UNCHANGED <<pc, mask, cn_map, radar_files, accumulated_runoff, individual_runoffs,
                   temps, out_written, ret, d8vars, tiledvars, runoffvars>>

\* A per-file failure that ends the whole accumulation.
SkipFailed_Aborts ==
    /\ pc = "acc_loop" /\ idx < Len(radar_files)
    /\ radar_files[idx + 1].exists
    /\ ~process_radar_file(idx + 1, radar_files[idx + 1], cn_map, mask).runoff.ok
    /\ pc' = "acc_returned"
    /\ ret' = NoGrid
    /\ UNCHANGED <<idx, mask, cn_map, radar_files, accumulated_runoff, individual_runoffs,
                   temps, out_written, d8vars, tiledvars, runoffvars>>

\* process_radar_file returned None: `if runoff is None: continue`
SkipFailed ==
    /\ pc = "acc_loop" /\ idx < Len(radar_files)
    /\ radar_files[idx + 1].exists
    /\ LET res == process_radar_file(idx + 1, radar_files[idx + 1], cn_map, mask)
       IN  /\ ~res.runoff.ok
           /\ temps' = temps \cup res.left
    /\ idx' = idx + 1
    /\ UNCHANGED <<pc, mask, cn_map, radar_files, accumulated_runoff, individual_runoffs,
                   out_written, ret, d8vars, tiledvars, runoffvars>>

\* process_radar_file returned a grid: it is kept, the total is initialised by
\* the first grid, a grid of another shape makes the function return None, and
\* the grid is added to the total.
Accumulate ==
    /\ pc = "acc_loop" /\ idx < Len(radar_files)
    /\ radar_files[idx + 1].exists
    /\ LET res == process_radar_file(idx + 1, radar_files[idx + 1], cn_map, mask)
       IN  /\ res.runoff.ok
           /\ temps' = temps \cup res.left
           /\ individual_runoffs' = Append(individual_runoffs, res.runoff)
           /\ IF ~accumulated_runoff.ok
              THEN /\ accumulated_runoff' = AddGrid(FirstTotal(res.runoff), res.runoff)
                   /\ idx' = idx + 1
                   /\ UNCHANGED <<pc, ret>>
              ELSE IF Shape(res.runoff) # Shape(accumulated_runoff)
              THEN /\ pc' = "acc_returned"
                   /\ ret' = NoGrid
                   /\ UNCHANGED <<idx, accumulated_runoff>>
              ELSE /\ accumulated_runoff' = AddGrid(accumulated_runoff, res.runoff)
                   /\ idx' = idx + 1
                   /\ UNCHANGED <<pc, ret>>
    /\ UNCHANGED <<mask, cn_map, radar_files, out_written, d8vars, tiledvars, runoffvars>>

\* After the loop with no total: `return accumulated_runoff`, which is None.
ReturnNone ==
    /\ pc = "acc_loop" /\ idx = Len(radar_files)
    /\ ~accumulated_runoff.ok
    /\ ret' = accumulated_runoff
    /\ pc' = "acc_returned"
    /\ UNCHANGED <<idx, mask, cn_map, radar_files, accumulated_runoff, individual_runoffs,
                   temps, out_written, d8vars, tiledvars, runoffvars>>

\* After the loop with a total: the profile is read from radar_files[0], the
\* total is written to output_path and returned.
WriteAndReturn ==
    /\ pc = "acc_loop" /\ idx = Len(radar_files)
    /\ accumulated_runoff.ok
    /\ radar_files[1].exists
    /\ out_written' = TRUE
    /\ ret' = accumulated_runoff
    /\ pc' = "acc_returned"
    /\ UNCHANGED <<idx, mask, cn_map, radar_files, accumulated_runoff, individual_runoffs,
                   temps, d8vars, tiledvars, runoffvars>>

\* After the loop with a total: rasterio.open(radar_files[0]) raises for a
\* first file that does not exist, and the function is left by the exception.
OpenFirstRaises ==
    /\ pc = "acc_loop" /\ idx = Len(radar_files)
    /\ accumulated_runoff.ok
    /\ ~radar_files[1].exists
    /\ pc' = "acc_raised"
    /\ UNCHANGED <<idx, mask, cn_map, radar_files, accumulated_runoff, individual_runoffs,
                   temps, out_written, ret, d8vars, tiledvars, runoffvars>>

\* The aligned rasters of the model: two rows of rain, one holding the declared
\* nodata value, one with a negative and a NaN value, a single cell (broadcast
\* over the mask) and a raster of another shape than the mask.
Raster(has_nodata, nodata, rows, cols, at) ==
    [has_nodata |-> has_nodata, nodata |-> nodata, rows |-> rows, cols |-> cols, at |-> at]

Rasters ==
    { Raster(FALSE, 0, 1, 2, Pair(MaxPrecip, MaxPrecip \div 2)),
      Raster(TRUE, -999, 1, 2, Pair(-999, MaxPrecip)),
      Raster(FALSE, 0, 1, 2, Pair(-1, NaN)),
      Raster(FALSE, 0, 1, 1, Fill(1, 1, MaxPrecip)),
      Raster(FALSE, 0, 2, 2, Fill(2, 2, 1)) }

RadarFiles ==
    {[exists |-> e, crop_ok |-> c, align_ok |-> a, has_nodata |-> x.has_nodata,
      nodata |-> x.nodata, rows |-> x.rows, cols |-> x.cols, at |-> x.at] :
        e \in BOOLEAN, c \in BOOLEAN, a \in BOOLEAN, x \in Rasters}

\* The files as the runs differ on them: a missing file, a file the crop step
\* fails on, a file the align step fails on, and files both steps succeed on.
FileKinds ==
    {f \in RadarFiles :
        \/ f.exists /\ f.crop_ok /\ f.align_ok
        \/ /\ f.rows = 1 /\ f.cols = 1
           /\ \/ ~f.exists /\ f.crop_ok /\ f.align_ok
              \/ f.exists /\ ~f.crop_ok /\ f.align_ok
              \/ f.exists /\ f.crop_ok /\ ~f.align_ok}

InitAcc ==
    /\ pc = "acc_loop"
    /\ window_data = NoGrid /\ flow_dir = NoGrid /\ TiledIdle /\ RunoffIdle
    /\ cn_map \in {Grid(1, 2, Pair(80, 80)), Grid(1, 2, Pair(100, 0)), Grid(1, 1, Fill(1, 1, 80))}
    /\ mask \in {Grid(1, 2, Pair(1, 1)), Grid(1, 2, Pair(1, 0)), Grid(1, 1, Fill(1, 1, 1))}
    /\ \E n \in 0 .. MaxFiles : radar_files \in [1 .. n -> FileKinds]
    /\ idx = 0
    /\ accumulated_runoff = InitialTotal
    /\ individual_runoffs = <<>>
    /\ temps = {}
    /\ out_written = FALSE
    /\ ret = NoGrid

NextAcc ==
    \/ SkipMissing
    \/ SkipFailed
    \/ Accumulate
    \/ ReturnNone
    \/ WriteAndReturn
    \/ OpenFirstRaises

SpecAcc == InitAcc /\ [][NextAcc]_vars

\* The i-th file is processed successfully: it exists, crop and align succeed
\* on it and the runoff computation returns a grid.
FileSucceeds(i) ==
    /\ radar_files[i].exists /\ radar_files[i].crop_ok /\ radar_files[i].align_ok
    /\ process_tiff(radar_files[i], cn_map, mask).ok

\* The i-th file exists and its crop step, align step or runoff computation fails.
FileFails(i) ==
    /\ radar_files[i].exists
    /\ \/ ~radar_files[i].crop_ok
       \/ ~radar_files[i].align_ok
       \/ ~process_tiff(radar_files[i], cn_map, mask).ok

RunoffOf(i) == process_tiff(radar_files[i], cn_map, mask)

\* The sum over the successfully processed files among the first n, at cell q.
RECURSIVE SumOfSuccessful(_, _)
SumOfSuccessful(q, n) ==
    IF n = 0 THEN 0
    ELSE SumOfSuccessful(q, n - 1) + (IF FileSucceeds(n) THEN RunoffOf(n).at[q] ELSE 0)

\* Every grid process_radar_file returns in a run has the shape that cn_map
\* and mask broadcast to, so the shape test of the loop never fails and the
\* loop is left only at the end of the list.
LoopLeftOnlyAtEnd ==
    /\ pc \in {"acc_returned", "acc_raised"} => idx = Len(radar_files)
    /\ \A i \in DOMAIN radar_files :
         FileSucceeds(i) => Shape(RunoffOf(i)) = Broadcast(Shape(cn_map), Shape(mask))

\* C1: no temporary file of the crop and align steps exists when the iteration
\* of a file has ended, whichever step failed.
C1_TempFilesDeleted == temps = {}

\* C4: the total is, cell by cell, the sum of the runoff grids of the files
\* processed successfully so far, and the grid returned is that sum over the
\* whole list; N successful files with one runoff grid G give N times G.
C4_ReturnsSumOfSuccessful ==
    /\ accumulated_runoff.ok =>
         \A q \in DOMAIN accumulated_runoff.at :
            accumulated_runoff.at[q] = SumOfSuccessful(q, idx)
    /\ pc = "acc_returned" /\ ret.ok =>
         LET ok == {i \in DOMAIN radar_files : FileSucceeds(i)}
         IN  /\ \A i \in ok : DOMAIN ret.at = DOMAIN RunoffOf(i).at
             /\ \A q \in DOMAIN ret.at : ret.at[q] = SumOfSuccessful(q, Len(radar_files))
             /\ \A i \in ok :
                  (\A j \in ok : RunoffOf(j) = RunoffOf(i)) =>
                     \A q \in DOMAIN ret.at : ret.at[q] = Cardinality(ok) * RunoffOf(i).at[q]

\* C4 witness: two files with one non-zero runoff grid and a skipped file; the
\* grid returned is twice that grid.
C4_Witness ==
    /\ pc = "acc_returned" /\ ret.ok
    /\ \E i, j, k \in DOMAIN radar_files :
         /\ i # j /\ FileSucceeds(i) /\ FileSucceeds(j) /\ FileFails(k)
         /\ RunoffOf(i) = RunoffOf(j)
         /\ \E q \in DOMAIN ret.at : RunoffOf(i).at[q] > 0 /\ ret.at[q] = 2 * RunoffOf(i).at[q]

\* C5: when the crop step, the align step or the runoff computation fails for
\* the file at hand, process_radar_file returns None and the step of the loop
\* leaves the total as it is and moves on to the next file of the list; the
\* loop is not left.
C5_FailureSkipsFile ==
    [][ pc = "acc_loop" /\ idx < Len(radar_files) /\ FileFails(idx + 1) =>
          /\ ~process_radar_file(idx + 1, radar_files[idx + 1], cn_map, mask).runoff.ok
          /\ pc' = "acc_loop"
          /\ idx' = idx + 1
          /\ accumulated_runoff' = accumulated_runoff
          /\ radar_files' = radar_files /\ ret' = ret /\ out_written' = out_written ]_vars

\* C5 witness: a file failed after the total was started, a later file was
\* added to the total, and the run returned a grid.
C5_Witness ==
    /\ pc = "acc_returned" /\ ret.ok
    /\ \E i, j, k \in DOMAIN radar_files :
         i < j /\ j < k /\ FileSucceeds(i) /\ FileFails(j) /\ FileSucceeds(k)

\* C6: the running total is defined exactly when a file was processed
\* successfully; with no such file in the list the function returns None, not
\* a grid of zeros, and writes no output raster.
C6_NoSuccessNoOutput ==
    /\ accumulated_runoff.ok <=> \E i \in 1 .. idx : FileSucceeds(i)
    /\ (\A i \in DOMAIN radar_files : ~FileSucceeds(i)) =>
         /\ ~out_written /\ ~ret.ok /\ pc # "acc_raised"
         /\ idx = Len(radar_files) => ENABLED ReturnNone \/ pc = "acc_returned"

\* C6 witness: a list of a missing file and a failed file was gone through and
\* None was returned with nothing written.
C6_Witness ==
    /\ pc = "acc_returned" /\ ~ret.ok /\ ~out_written
    /\ \A i \in DOMAIN radar_files : ~FileSucceeds(i)
    /\ \E i, j \in DOMAIN radar_files : ~radar_files[i].exists /\ FileFails(j)

====
